---- MODULE Spec2Model ----
\* A model of the option-go package: the generic Option[T] value type, its
\* accessors and combinators, and its JSON codec (whole-buffer and streaming).
\* The repository holds several historical variants of the same methods; each
\* variant that differs in behaviour is modelled under its own name:
\*   (no suffix)  src/option.go, first file (lines 1-205)
\*   _old         src/option.go, second file (lines 207-277)
\*   _json        src/json.go
\*   _part        src/unnamed/part_000
EXTENDS Integers, Sequences, FiniteSets, TLC

\* ---------------------------------------------------------------- bounds

\* Contained integers range over 0..MaxInt.
MaxInt == 2

\* The elements of a contained [2]int range over 0..MaxElem.
MaxElem == 1

\* ------------------------------------------------------ the type parameter

\* The instantiations of T that are modelled:
\*   "int"  Go int
\*   "ptr"  *int (nil or a reference to an int)
\*   "arr"  [2]int
\*   "zt"   a named integer type with an IsZero() bool method (reporting
\*          true for even values, so the method differs from "equals default")
Types == {"int", "ptr", "arr", "zt"}

V(k, a, b) == [k |-> k, a |-> a, b |-> b]

Values(T) ==
  CASE T = "int" -> {V("int", n, 0) : n \in 0..MaxInt}
    [] T = "ptr" -> {V("nil", 0, 0)} \cup {V("ref", n, 0) : n \in 0..MaxInt}
    [] T = "arr" -> {V("arr", a, b) : a \in 0..MaxElem, b \in 0..MaxElem}
    [] T = "zt"  -> {V("zt", n, 0) : n \in 0..MaxInt}

\* T's zero value, the content of Option[T]{}.value.
Zero(T) ==
  CASE T = "int" -> V("int", 0, 0)
    [] T = "ptr" -> V("nil", 0, 0)
    [] T = "arr" -> V("arr", 0, 0)
    [] T = "zt"  -> V("zt", 0, 0)

\* Whether T's method set holds IsZero() bool.
HasIsZeroMethod(T) == T = "zt"

\* The contained type's own IsZero method.
IsZeroMethod(v) == v.a % 2 = 0

\* ------------------------------------------------------------ constructors

Option(valid, value) == [valid |-> valid, value |-> value]

Some(value) == Option(TRUE, value)

None(T) == Option(FALSE, Zero(T))

\* ------------------------------------------------------------- JSON text
\* JSON text is a sequence of one-character strings. The encoder and decoder
\* of the contained type belong to the json library the package calls; they
\* are modelled here for the modelled instantiations of T, over the grammar
\*   value ::= null | digits | "[" (scalar ("," scalar)*)? "]"
\* with blanks between tokens. Objects are not scanned: "{" starts a value
\* that none of the modelled types accepts.

DigitChar == <<"0", "1", "2", "3", "4", "5", "6", "7", "8", "9">>

IsDigit(c) == \E d \in 1..10 : DigitChar[d] = c

DigitVal(c) == (CHOOSE d \in 1..10 : DigitChar[d] = c) - 1

RECURSIVE Digits(_)
Digits(n) ==
  IF n < 10 THEN <<DigitChar[n + 1]>>
  ELSE Digits(n \div 10) \o <<DigitChar[(n % 10) + 1]>>

\* The four bytes of []byte("null").
NULL == <<"n", "u", "l", "l">>

\* jsonv1.Marshal(&o.value) and json.MarshalEncode(enc, &o.value): the JSON
\* encoding of the contained value (a pointer is encoded as what it points to,
\* a nil pointer as null). No modelled type has an encoding error.
Marshal(v) ==
  CASE v.k = "int" -> Digits(v.a)
    [] v.k = "zt"  -> Digits(v.a)
    [] v.k = "nil" -> NULL
    [] v.k = "ref" -> Digits(v.a)
    [] v.k = "arr" -> <<"[">> \o Digits(v.a) \o <<",">> \o Digits(v.b) \o <<"]">>

RECURSIVE SkipWS(_, _)
\* The first index >= j of s that holds no blank (Len(s) + 1 at the end).
SkipWS(s, j) == IF j <= Len(s) /\ s[j] = " " THEN SkipWS(s, j + 1) ELSE j

HasNull(s, j) == j + 3 <= Len(s) /\ SubSeq(s, j, j + 3) = NULL

RECURSIVE NumEnd(_, _)
\* The last index of the run of digits that starts at j.
NumEnd(s, j) == IF j + 1 <= Len(s) /\ IsDigit(s[j + 1]) THEN NumEnd(s, j + 1) ELSE j

RECURSIVE NumVal(_, _, _)
NumVal(s, j, e) ==
  IF e = j THEN DigitVal(s[j]) ELSE 10 * NumVal(s, j, e - 1) + DigitVal(s[e])

\* A number with a leading zero is no JSON number.
BadNum(s, j) == s[j] = "0" /\ NumEnd(s, j) > j

\* The result of a decode: the error ("nil" for none), the content of the
\* target afterwards, and the index of the last character consumed.
Res(err, value, end) == [err |-> err, value |-> value, end |-> end]

SetIdx(arr, i, n) == IF i = 0 THEN V("arr", n, arr.b) ELSE V("arr", arr.a, n)

\* JSON null into a target of type T: a pointer becomes nil; any other target
\* is left alone under the v1 semantics and zeroed under the v2 semantics.
NullInto(T, prior, legacy) ==
  IF T = "ptr" THEN V("nil", 0, 0) ELSE IF legacy THEN prior ELSE Zero(T)

NumInto(T, n) ==
  CASE T = "int" -> V("int", n, 0)
    [] T = "zt"  -> V("zt", n, 0)
    [] T = "ptr" -> V("ref", n, 0)

\* The closing bracket of an array of `count` elements into a [2]int: missing
\* elements are zeroed; a length other than 2 is an error only under v2.
ArrClose(cur, count, k, legacy) ==
  LET z1 == IF count < 1 THEN SetIdx(cur, 0, 0) ELSE cur
      z2 == IF count < 2 THEN SetIdx(z1, 1, 0) ELSE z1
  IN Res(IF count = 2 \/ legacy THEN "nil" ELSE "semantic", z2, k)

RECURSIVE ArrElems(_, _, _, _, _, _)
\* The elements of a JSON array decoded in order into a [2]int, each stored as
\* soon as it is read: an error leaves the elements stored so far in place.
\* cur is the array so far, i the index of the next element, j0 where it starts,
\* fail the offset a syntax error reports.
ArrElems(cur, s, j0, i, legacy, fail) ==
  LET j == SkipWS(s, j0)
      cur0 == IF legacy \/ i >= 2 THEN cur ELSE SetIdx(cur, i, 0)
  IN IF j > Len(s) THEN Res("EOF", cur0, fail)
     ELSE IF i = 0 /\ s[j] = "]" THEN ArrClose(cur, 0, j, legacy)
     ELSE IF (IsDigit(s[j]) /\ ~BadNum(s, j)) \/ HasNull(s, j) THEN
       LET e == IF IsDigit(s[j]) THEN NumEnd(s, j) ELSE j + 3
           cur1 == IF i >= 2 THEN cur
                   ELSE IF IsDigit(s[j]) THEN SetIdx(cur, i, NumVal(s, j, e))
                   ELSE cur0
           k == SkipWS(s, e + 1)
       IN IF k > Len(s) THEN Res("EOF", cur1, fail)
          ELSE IF s[k] = "," THEN ArrElems(cur1, s, k + 1, i + 1, legacy, fail)
          ELSE IF s[k] = "]" THEN ArrClose(cur1, i + 1, k, legacy)
          ELSE Res("syntax", cur1, fail)
     ELSE Res("syntax", cur0, fail)

RECURSIVE ScanArr(_, _)
\* The index of the "]" closing the array whose next element starts at j0,
\* or 0 when the text is no array.
ScanArr(s, j0) ==
  LET j == SkipWS(s, j0) IN
  IF j > Len(s) THEN 0
  ELSE IF (IsDigit(s[j]) /\ ~BadNum(s, j)) \/ HasNull(s, j) THEN
    LET e == IF IsDigit(s[j]) THEN NumEnd(s, j) ELSE j + 3
        k == SkipWS(s, e + 1)
    IN IF k > Len(s) THEN 0
       ELSE IF s[k] = "," THEN ScanArr(s, k + 1)
       ELSE IF s[k] = "]" THEN k
       ELSE 0
  ELSE 0

\* One JSON value of s, starting at j0, decoded into a target of type T that
\* holds `prior`. legacy selects the v1 semantics (jsonv1.Unmarshal) over the
\* v2 semantics (json.UnmarshalDecode). A syntax error consumes nothing.
Decode(T, prior, s, j0, legacy) ==
  LET j == SkipWS(s, j0) IN
  IF j > Len(s) THEN Res("EOF", prior, j0 - 1)
  ELSE IF s[j] = "n" THEN
    IF HasNull(s, j) THEN Res("nil", NullInto(T, prior, legacy), j + 3)
    ELSE Res("syntax", prior, j0 - 1)
  ELSE IF IsDigit(s[j]) THEN
    IF BadNum(s, j) THEN Res("syntax", prior, j0 - 1)
    ELSE IF T = "arr" THEN Res("semantic", prior, NumEnd(s, j))
    ELSE Res("nil", NumInto(T, NumVal(s, j, NumEnd(s, j))), NumEnd(s, j))
  ELSE IF s[j] = "[" THEN
    IF T = "arr" THEN ArrElems(prior, s, j + 1, 0, legacy, j0 - 1)
    ELSE LET k == SkipWS(s, j + 1)
             e == IF k <= Len(s) /\ s[k] = "]" THEN k ELSE ScanArr(s, j + 1)
         IN IF e = 0 THEN Res("syntax", prior, j0 - 1)
            ELSE Res("semantic", prior, e)
  ELSE Res("syntax", prior, j0 - 1)

\* jsonv1.Unmarshal(data, &o.value): data must hold one value and nothing
\* after it but blanks.
Unmarshal(T, prior, data) ==
  LET r == Decode(T, prior, data, 1, TRUE) IN
  IF r.err \in {"syntax", "EOF"} THEN r
  ELSE IF SkipWS(data, r.end + 1) <= Len(data) THEN Res("syntax", r.value, r.end)
  ELSE r

\* ------------------------------------------------- the streaming decoder
\* A jsontext.Decoder is the text it reads and the number of characters
\* already consumed.

Decoder(buf, off) == [buf |-> buf, off |-> off]

\* dec.PeekKind(): the kind of the next token, by its first character, without
\* consuming it: "invalid" (the zero Kind) at the end of input or at a
\* misplaced comma, "0" for a number, otherwise the character itself.
PeekKind(dec) ==
  LET j == SkipWS(dec.buf, dec.off + 1) IN
  IF j > Len(dec.buf) THEN "invalid"
  ELSE IF dec.buf[j] = "," THEN "invalid"
  ELSE IF IsDigit(dec.buf[j]) THEN "0"
  ELSE dec.buf[j]

\* dec.ReadToken(): the error and the offset after the call. A token that is
\* read is consumed; an error consumes nothing.
ReadToken(dec) ==
  LET s == dec.buf
      j == SkipWS(s, dec.off + 1)
  IN IF j > Len(s) THEN [err |-> "EOF", off |-> dec.off]
     ELSE IF HasNull(s, j) THEN [err |-> "nil", off |-> j + 3]
     ELSE IF IsDigit(s[j]) /\ ~BadNum(s, j) THEN [err |-> "nil", off |-> NumEnd(s, j)]
     ELSE IF s[j] \in {"[", "{"} THEN [err |-> "nil", off |-> j]
     ELSE [err |-> "syntax", off |-> dec.off]

\* json.UnmarshalDecode(dec, &o.value).
UnmarshalDecode(dec, T, prior) == Decode(T, prior, dec.buf, dec.off + 1, FALSE)

\* ------------------------------------------------------------- accessors
\* A method with a value receiver works on a copy of the option: its result
\* is all it can change.

IsSome(o) == o.valid

IsNone(o) == ~o.valid

\* The panic messages of the package, and the runtime's for a nil dereference.
PanicUnwrap == "called Unwrap on a None value"

\* (the source quotes Option.Unwrap() and None in backquotes)
PanicUnwrap_old == "called Option.Unwrap() on a None value"

PanicNil == "option is nil"

PanicDeref == "runtime error: invalid memory address or nil pointer dereference"

NoPanic == "none"

\* What a call that returns a value of T yields: the value, or a panic.
Got(val) == [panic |-> NoPanic, val |-> val]

Panicked(T, msg) == [panic |-> msg, val |-> Zero(T)]

Expect(T, o, msg) == IF o.valid THEN Got(o.value) ELSE Panicked(T, msg)

Unwrap(T, o) == IF o.valid THEN Got(o.value) ELSE Panicked(T, PanicUnwrap)

Unwrap_old(T, o) == IF o.valid THEN Got(o.value) ELSE Panicked(T, PanicUnwrap_old)

UnwrapOr(o, fallback) == IF o.valid THEN o.value ELSE fallback

UnwrapOrZero(o) == o.value

\* ------------------------------------------------------------- callbacks
\* A caller's function over a value of T is modelled by what it does: whether
\* it writes w through the reference it is given (or, for a function that
\* takes its argument by value, returns w instead of its argument), and the
\* boolean it returns as a predicate.

Callbacks(T) ==
  {cb \in [set : BOOLEAN, w : Values(T), ret : BOOLEAN] : ~cb.set => cb.w = Zero(T)}

\* The content of *p after cb(p), and the result of a cb of type func(T) T.
Written(cb, v) == IF cb.set THEN cb.w ELSE v

\* ------------------------------------------------------------ combinators
\* Each yields the option returned and the number of calls of the function.

Ret(ret, calls) == [ret |-> ret, calls |-> calls]

Filter(T, o, predicate) ==
  IF o.valid
  THEN IF predicate.ret THEN Ret(Option(TRUE, Written(predicate, o.value)), 1)
       ELSE Ret(None(T), 1)
  ELSE Ret(None(T), 0)

Inspect(T, o, f) ==
  IF o.valid THEN Ret(Option(o.valid, Written(f, o.value)), 1) ELSE Ret(o, 0)

Map(T, o, f) ==
  IF o.valid THEN Ret(Option(TRUE, Written(f, o.value)), 1) ELSE Ret(None(T), 0)

And(T, o, other) == IF o.valid THEN other ELSE None(T)

Or(T, o, other) == IF o.valid THEN o ELSE other

\* Xor that keeps the receiver when both options are Present.
Xor_keepsReceiver(T, o, other) ==
  CASE o.valid -> o
    [] other.valid -> other
    [] OTHER -> None(T)

Xor(T, o, other) ==
  CASE o.valid /\ ~other.valid -> o
    [] ~o.valid /\ other.valid -> other
    [] OTHER -> None(T)

\* f is a func(T) Option[T] that returns `result` whatever its argument.
AndThen(T, o, result) == IF o.valid THEN Ret(result, 1) ELSE Ret(None(T), 0)

\* f is a func() Option[T] that returns `result`.
OrElse(T, o, result) == IF o.valid THEN Ret(o, 0) ELSE Ret(result, 1)

\* --------------------------------------------------------------- IsZero

IsZero(T, o) ==
  IF ~o.valid THEN TRUE
  ELSE IF HasIsZeroMethod(T) THEN IsZeroMethod(o.value)
  ELSE FALSE

IsZero_json(T, o) ==
  IF o.valid
  THEN IF HasIsZeroMethod(T) THEN IsZeroMethod(o.value)
       ELSE o.value = Zero(T)
  ELSE TRUE

\* ------------------------------------------------------------ the codec
\* A decode method has a pointer receiver: nilp says that the pointer is nil,
\* and o is what it points to otherwise. The outcome is the option afterwards,
\* the error returned ("nil" for none), the panic, the decoder's offset
\* afterwards, and the numbers of ReadToken and of decode calls made.

Outcome(o, err, panic, off, reads, decodes) ==
  [o |-> o, err |-> err, panic |-> panic, off |-> off, reads |-> reads,
   decodes |-> decodes]

\* MarshalJSON with the test of o.valid inverted.
MarshalJSON_inverted(o) == IF ~o.valid THEN Marshal(o.value) ELSE NULL

MarshalJSON(o) == IF o.valid THEN Marshal(o.value) ELSE NULL

\* The text written to the encoder.
MarshalJSONTo(nilp, o) ==
  IF ~nilp /\ o.valid THEN [panic |-> NoPanic, out |-> Marshal(o.value)]
  ELSE [panic |-> NoPanic, out |-> NULL]

MarshalJSONTo_part(nilp, o) ==
  IF nilp THEN [panic |-> PanicDeref, out |-> <<>>]
  ELSE IF o.valid THEN [panic |-> NoPanic, out |-> Marshal(o.value)]
  ELSE [panic |-> NoPanic, out |-> NULL]

\* UnmarshalJSON without the comparison of data with "null".
UnmarshalJSONBody_noNullCase(T, o, data) ==
  LET r == Unmarshal(T, o.value, data) IN
  IF r.err # "nil" THEN Outcome(None(T), r.err, NoPanic, 0, 0, 1)
  ELSE Outcome(Option(TRUE, r.value), "nil", NoPanic, 0, 0, 1)

\* The body of UnmarshalJSON after the receiver is known not to be nil.
UnmarshalJSONBody(T, o, data) ==
  IF data = NULL THEN Outcome(None(T), "nil", NoPanic, 0, 0, 0)
  ELSE LET r == Unmarshal(T, o.value, data) IN
       IF r.err # "nil" THEN Outcome(None(T), r.err, NoPanic, 0, 0, 1)
       ELSE Outcome(Option(TRUE, r.value), "nil", NoPanic, 0, 0, 1)

UnmarshalJSON(T, nilp, o, data) ==
  IF nilp THEN Outcome(o, "nil", PanicNil, 0, 0, 0)
  ELSE UnmarshalJSONBody(T, o, data)

\* Without the nil check, *o = Option[T]{} and &o.value dereference nil.
UnmarshalJSON_part(T, nilp, o, data) ==
  IF nilp THEN Outcome(o, "nil", PanicDeref, 0, 0, 0)
  ELSE UnmarshalJSONBody(T, o, data)

isKindValid(k) == k \in {"n", "f", "t", "\"", "0", "{", "}", "[", "]"}

UnmarshalJSONFrom(T, nilp, o, dec) ==
  IF nilp THEN Outcome(o, "nil", PanicNil, dec.off, 0, 0)
  ELSE IF isKindValid(PeekKind(dec)) /\ PeekKind(dec) # "n" THEN
    LET r == UnmarshalDecode(dec, T, o.value) IN
    IF r.err = "nil" THEN Outcome(Option(TRUE, r.value), "nil", NoPanic, r.end, 0, 1)
    ELSE Outcome(None(T), r.err, NoPanic, r.end, 0, 1)
  ELSE LET t == ReadToken(dec) IN
       Outcome(None(T), t.err, NoPanic, t.off, 1, 0)

UnmarshalJSONFrom_part(T, nilp, o, dec) ==
  IF nilp THEN Outcome(o, "nil", PanicDeref, dec.off, 0, 0)
  ELSE IF PeekKind(dec) = "invalid" THEN
    LET t == ReadToken(dec) IN Outcome(None(T), t.err, NoPanic, t.off, 1, 0)
  ELSE IF PeekKind(dec) = "n" THEN Outcome(None(T), "nil", NoPanic, dec.off, 0, 0)
  ELSE LET r == UnmarshalDecode(dec, T, o.value) IN
       IF r.err # "nil" THEN Outcome(None(T), r.err, NoPanic, r.end, 0, 1)
       ELSE Outcome(Option(TRUE, r.value), "nil", NoPanic, r.end, 0, 1)

UnmarshalJSONFrom_json(T, nilp, o, dec) ==
  IF PeekKind(dec) # "n" THEN
    IF nilp THEN Outcome(o, "nil", PanicDeref, dec.off, 0, 0)
    ELSE LET r == UnmarshalDecode(dec, T, o.value) IN
         IF r.err = "nil" THEN Outcome(Option(TRUE, r.value), "nil", NoPanic, r.end, 0, 1)
         ELSE Outcome(Option(o.valid, r.value), r.err, NoPanic, r.end, 0, 1)
  ELSE LET t == ReadToken(dec) IN
       IF t.err = "nil"
       THEN IF nilp THEN Outcome(o, "nil", PanicDeref, t.off, 1, 0)
            ELSE Outcome(None(T), "nil", NoPanic, t.off, 1, 0)
       ELSE Outcome(o, t.err, NoPanic, t.off, 1, 0)

\* ---------------------------------------------------------------- inputs

\* The messages a caller passes to Expect.
Msgs == {"boom", "value required"}

Encodings == UNION {{Marshal(v) : v \in Values(t)} : t \in Types}

\* Texts that are not the encoding of any value: null after a blank, a cut
\* null, nothing, a cut array, a cut object, bytes that start no token.
Malformed ==
  {<<" ">> \o NULL, <<"n", "u", "l">>, <<>>, <<"[", "1", ",">>, <<"{">>,
   <<"x">>, <<",">>}

\* The data passed to UnmarshalJSON.
BufInputs == {NULL} \cup Encodings \cup Malformed

\* The texts a decoder is made over: one value, or null and a value after it.
StreamInputs == BufInputs \cup {NULL \o <<" ", "1">>}

\* ----------------------------------------------------------------- state
\* T     the type argument of the option under test
\* o     the caller's Option[T] variable
\* dec   the caller's jsontext.Decoder
\* last  the call in progress: "idle" between calls, else the method called,
\*       its arguments, the receiver before the call, and what came back
VARIABLES T, o, dec, last

vars == <<T, o, dec, last>>

Idle(t) ==
  [op |-> "idle", nilp |-> FALSE, pre |-> None(t), other |-> None(t),
   cb |-> [set |-> FALSE, w |-> Zero(t), ret |-> FALSE], data |-> <<>>,
   msg |-> "", ret |-> None(t), val |-> Zero(t), bool |-> FALSE,
   err |-> "nil", panic |-> NoPanic, out |-> <<>>, calls |-> 0, reads |-> 0,
   decodes |-> 0, dec0 |-> Decoder(<<>>, 0), assigned |-> FALSE]

\* The record of a call of op on the receiver o.
Call(op) == [Idle(T) EXCEPT !.op = op, !.pre = o, !.dec0 = dec]

\* Every Option[T] that Some and None construct.
Options(t) == {None(t)} \cup {Some(v) : v \in Values(t)}

Init ==
  /\ T \in Types
  /\ o = None(T)
  /\ dec = Decoder(<<>>, 0)
  /\ last = Idle(T)

\* The caller takes the result of the call and goes on.
Resume ==
  /\ last.op # "idle"
  /\ last' = Idle(T)
  /\ UNCHANGED <<T, o, dec>>

DoSome ==
  \E v \in Values(T) :
    /\ last.op = "idle"
    /\ o' = Some(v)
    /\ last' = [Call("Some") EXCEPT !.val = v, !.ret = Some(v)]
    /\ UNCHANGED <<T, dec>>

DoNone ==
  /\ last.op = "idle"
  /\ o' = None(T)
  /\ last' = [Call("None") EXCEPT !.ret = None(T)]
  /\ UNCHANGED <<T, dec>>

\* jsontext.NewDecoder over a text.
NewDecoder ==
  \E input \in StreamInputs :
    /\ last.op = "idle"
    /\ dec' = Decoder(input, 0)
    /\ last' = [Call("NewDecoder") EXCEPT !.data = input]
    /\ UNCHANGED <<T, o>>

\* ------------------------------------------------- accessors (value receiver)

\* A call that returns a value of T or panics; o is passed by value.
Returns(op, msg, r) ==
  /\ last.op = "idle"
  /\ last' = [Call(op) EXCEPT !.msg = msg, !.val = r.val, !.panic = r.panic]
  /\ UNCHANGED <<T, o, dec>>

DoExpect == \E msg \in Msgs : Returns("Expect", msg, Expect(T, o, msg))

DoUnwrap == Returns("Unwrap", "", Unwrap(T, o))

DoUnwrap_old == Returns("Unwrap_old", "", Unwrap_old(T, o))

DoUnwrapOr ==
  \E fallback \in Values(T) :
    /\ last.op = "idle"
    /\ last' = [Call("UnwrapOr") EXCEPT !.cb.w = fallback,
                                        !.val = UnwrapOr(o, fallback)]
    /\ UNCHANGED <<T, o, dec>>

DoUnwrapOrZero == Returns("UnwrapOrZero", "", Got(UnwrapOrZero(o)))

\* A call that returns a bool.
Reports(op, b) ==
  /\ last.op = "idle"
  /\ last' = [Call(op) EXCEPT !.bool = b]
  /\ UNCHANGED <<T, o, dec>>

DoIsSome == Reports("IsSome", IsSome(o))

DoIsNone == Reports("IsNone", IsNone(o))

DoIsZero == Reports("IsZero", IsZero(T, o))

DoIsZero_json == Reports("IsZero_json", IsZero_json(T, o))

\* ----------------------------------------------- combinators (value receiver)

\* A call that returns an option; the caller keeps the result beside o or
\* assigns it to o.
Yields(op, cb, other, r) ==
  \E assign \in BOOLEAN :
    /\ last.op = "idle"
    /\ last' = [Call(op) EXCEPT !.cb = cb, !.other = other, !.ret = r.ret,
                                !.calls = r.calls, !.assigned = assign]
    /\ o' = IF assign THEN r.ret ELSE o
    /\ UNCHANGED <<T, dec>>

DoFilter ==
  \E cb \in Callbacks(T) : Yields("Filter", cb, None(T), Filter(T, o, cb))

DoInspect ==
  \E cb \in Callbacks(T) : Yields("Inspect", cb, None(T), Inspect(T, o, cb))

DoMap ==
  \E cb \in Callbacks(T) : Yields("Map", cb, None(T), Map(T, o, cb))

DoAnd ==
  \E other \in Options(T) :
    Yields("And", Idle(T).cb, other, Ret(And(T, o, other), 0))

DoOr ==
  \E other \in Options(T) :
    Yields("Or", Idle(T).cb, other, Ret(Or(T, o, other), 0))

DoXor ==
  \E other \in Options(T) :
    Yields("Xor", Idle(T).cb, other, Ret(Xor(T, o, other), 0))

DoAndThen ==
  \E other \in Options(T) :
    Yields("AndThen", Idle(T).cb, other, AndThen(T, o, other))

DoOrElse ==
  \E other \in Options(T) :
    Yields("OrElse", Idle(T).cb, other, OrElse(T, o, other))

\* ------------------------------------------------------------- the codec

DoMarshalJSON ==
  /\ last.op = "idle"
  /\ last' = [Call("MarshalJSON") EXCEPT !.out = MarshalJSON(o)]
  /\ UNCHANGED <<T, o, dec>>

Encodes(op, nilp, r) ==
  /\ last.op = "idle"
  /\ last' = [Call(op) EXCEPT !.nilp = nilp, !.out = r.out, !.panic = r.panic]
  /\ UNCHANGED <<T, o, dec>>

DoMarshalJSONTo ==
  \E nilp \in BOOLEAN : Encodes("MarshalJSONTo", nilp, MarshalJSONTo(nilp, o))

DoMarshalJSONTo_part ==
  \E nilp \in BOOLEAN :
    Encodes("MarshalJSONTo_part", nilp, MarshalJSONTo_part(nilp, o))

\* A decode through a pointer to o (or through a nil pointer, and then o is
\* not the receiver and stays as it is).
Decodes(op, nilp, data, r) ==
  /\ last.op = "idle"
  /\ last' = [Call(op) EXCEPT !.nilp = nilp, !.data = data, !.ret = r.o,
                              !.err = r.err, !.panic = r.panic,
                              !.reads = r.reads, !.decodes = r.decodes]
  /\ o' = IF nilp THEN o ELSE r.o
  /\ UNCHANGED T

DoUnmarshalJSON ==
  \E nilp \in BOOLEAN, data \in BufInputs :
    /\ Decodes("UnmarshalJSON", nilp, data, UnmarshalJSON(T, nilp, o, data))
    /\ UNCHANGED dec

DoUnmarshalJSON_part ==
  \E nilp \in BOOLEAN, data \in BufInputs :
    /\ Decodes("UnmarshalJSON_part", nilp, data,
               UnmarshalJSON_part(T, nilp, o, data))
    /\ UNCHANGED dec

DoUnmarshalJSONFrom ==
  \E nilp \in BOOLEAN :
    LET r == UnmarshalJSONFrom(T, nilp, o, dec) IN
    /\ Decodes("UnmarshalJSONFrom", nilp, dec.buf, r)
    /\ dec' = Decoder(dec.buf, r.off)

DoUnmarshalJSONFrom_part ==
  \E nilp \in BOOLEAN :
    LET r == UnmarshalJSONFrom_part(T, nilp, o, dec) IN
    /\ Decodes("UnmarshalJSONFrom_part", nilp, dec.buf, r)
    /\ dec' = Decoder(dec.buf, r.off)

DoUnmarshalJSONFrom_json ==
  \E nilp \in BOOLEAN :
    LET r == UnmarshalJSONFrom_json(T, nilp, o, dec) IN
    /\ Decodes("UnmarshalJSONFrom_json", nilp, dec.buf, r)
    /\ dec' = Decoder(dec.buf, r.off)

Next ==
  \/ Resume
  \/ DoSome
  \/ DoNone
  \/ NewDecoder
  \/ DoExpect
  \/ DoUnwrap
  \/ DoUnwrap_old
  \/ DoUnwrapOr
  \/ DoUnwrapOrZero
  \/ DoIsSome
  \/ DoIsNone
  \/ DoIsZero
  \/ DoIsZero_json
  \/ DoFilter
  \/ DoInspect
  \/ DoMap
  \/ DoAnd
  \/ DoOr
  \/ DoXor
  \/ DoAndThen
  \/ DoOrElse
  \/ DoMarshalJSON
  \/ DoMarshalJSONTo
  \/ DoMarshalJSONTo_part
  \/ DoUnmarshalJSON
  \/ DoUnmarshalJSON_part
  \/ DoUnmarshalJSONFrom
  \/ DoUnmarshalJSONFrom_part
  \/ DoUnmarshalJSONFrom_json

Spec == Init /\ [][Next]_vars

\* ================================================================ claims

WholeOps == {"UnmarshalJSON", "UnmarshalJSON_part"}

StreamOps ==
  {"UnmarshalJSONFrom", "UnmarshalJSONFrom_part", "UnmarshalJSONFrom_json"}

DecodeOps == WholeOps \cup StreamOps

\* The call in progress is a decode through a pointer that is not nil.
Decoding == last.op \in DecodeOps /\ ~last.nilp

\* The input of the decode in progress cannot be decoded as T: it is not the
\* null literal, and the decoder of the contained type rejects it.
Undecodable ==
  IF last.op \in WholeOps
  THEN last.data # NULL /\ Unmarshal(T, last.pre.value, last.data).err # "nil"
  ELSE /\ ~HasNull(last.dec0.buf, SkipWS(last.dec0.buf, last.dec0.off + 1))
       /\ UnmarshalDecode(last.dec0, T, last.pre.value).err # "nil"

\* C1: whatever the decode entry point and the prior state of the option, a
\* decode of input that cannot be decoded as T returns a non-nil error and
\* leaves the option Absent with its slot at T's default.
C1_FailedDecodeLeavesAbsent ==
  (Decoding /\ Undecodable) => (last.err # "nil" /\ o = None(T))

\* C1 for the whole-buffer decodes and the UnmarshalJSONFrom of src/option.go.
C1_OptionGo ==
  (Decoding /\ Undecodable
     /\ last.op \notin {"UnmarshalJSONFrom_json", "UnmarshalJSONFrom_part"})
    => (last.err # "nil" /\ o = None(T))

\* C2: in every reachable state an Absent option has its slot at T's default,
\* so UnwrapOrZero on an Absent option returns T's zero value.
C2_AbsentSlotIsDefault ==
  /\ ~o.valid => o.value = Zero(T)
  /\ ~last.ret.valid => last.ret.value = Zero(T)
  /\ (last.op = "UnwrapOrZero" /\ ~last.pre.valid) => last.val = Zero(T)

\* The peeked kind of the streaming decode in progress is the null literal or
\* a kind that is invalid or unrecognized.
PeekedNullOrInvalid ==
  /\ last.op \in StreamOps
  /\ ~last.nilp
  /\ (PeekKind(last.dec0) = "n" \/ ~isKindValid(PeekKind(last.dec0)))

\* C3: a streaming decode that peeks null or an invalid kind reads exactly one
\* token (after a well-formed null the decoder stands behind it), decodes no
\* value, leaves the option Absent and returns the error of the token read.
C3_NullOrInvalidReadsOneToken ==
  PeekedNullOrInvalid =>
    /\ last.reads = 1
    /\ last.decodes = 0
    /\ o = None(T)
    /\ last.err = ReadToken(last.dec0).err
    /\ dec = Decoder(last.dec0.buf, ReadToken(last.dec0).off)

\* C3 for the UnmarshalJSONFrom of src/option.go alone.
C3_OptionGo ==
  (PeekedNullOrInvalid /\ last.op = "UnmarshalJSONFrom") =>
    /\ last.reads = 1
    /\ last.decodes = 0
    /\ o = None(T)
    /\ last.err = ReadToken(last.dec0).err
    /\ dec = Decoder(last.dec0.buf, ReadToken(last.dec0).off)

\* The texts that encoding Some(v) produces, by any of the encode methods.
EncodingsOfSome(v) ==
  {MarshalJSON(Some(v)), MarshalJSONTo(FALSE, Some(v)).out,
   MarshalJSONTo_part(FALSE, Some(v)).out}

\* The decode in progress reads `text` into a fresh zero-valued option.
DecodesFresh(text) ==
  /\ Decoding
  /\ last.pre = None(T)
  /\ IF last.op \in WholeOps THEN last.data = text
     ELSE last.dec0 = Decoder(text, 0)

\* C4: for every value v of T, decoding the encoding of Some(v) into a fresh
\* option returns no error and leaves the option Present with a value equal
\* to v.
C4_RoundTrip ==
  \A v \in Values(T) : \A text \in EncodingsOfSome(v) :
    DecodesFresh(text) => (last.err = "nil" /\ o = Some(v))

\* C4 as amended: the same for every value v whose encoding is not the literal
\* null.
C4_RoundTripExceptNull ==
  \A v \in Values(T) : \A text \in EncodingsOfSome(v) :
    (Marshal(v) # NULL /\ DecodesFresh(text))
      => (last.err = "nil" /\ o = Some(v))

\* A [2]int with a non-zero element has gone through the streaming round trip.
C4_Witness ==
  /\ last.op = "UnmarshalJSONFrom"
  /\ DecodesFresh(MarshalJSONTo(FALSE, Some(V("arr", 1, 0))).out)
  /\ o = Some(V("arr", 1, 0))

\* C5: encoding an Absent option yields exactly the literal null; whole-buffer
\* decoding of exactly null returns no error and leaves the option Absent
\* whatever it was before; and no other input decodes to Absent.
C5_NullIsAbsent ==
  /\ (last.op = "MarshalJSON" /\ ~last.pre.valid) => last.out = NULL
  /\ (last.op \in {"MarshalJSONTo", "MarshalJSONTo_part"} /\ ~last.nilp
        /\ ~last.pre.valid)
       => (last.out = NULL /\ last.panic = NoPanic)
  /\ (last.op \in WholeOps /\ ~last.nilp /\ last.data = NULL)
       => (last.err = "nil" /\ o = None(T) /\ last.panic = NoPanic)
  /\ (last.op \in WholeOps /\ ~last.nilp /\ last.err = "nil" /\ ~o.valid)
       => last.data = NULL

\* A Present option has been decoded from null and is now Absent.
C5_Witness ==
  /\ last.op = "UnmarshalJSON"
  /\ ~last.nilp
  /\ last.pre.valid
  /\ last.pre.value # Zero(T)
  /\ last.data = NULL
  /\ o = None(T)

\* C6: a decode through a nil *Option[T] panics with "option is nil" before
\* any input is read or any token consumed.
C6_NilReceiverPanics ==
  (last.op \in DecodeOps /\ last.nilp) =>
    /\ last.panic = PanicNil
    /\ last.reads = 0
    /\ last.decodes = 0
    /\ dec = last.dec0

\* C6 for the decode methods of src/option.go alone.
C6_OptionGo ==
  (last.op \in {"UnmarshalJSON", "UnmarshalJSONFrom"} /\ last.nilp) =>
    /\ last.panic = PanicNil
    /\ last.reads = 0
    /\ last.decodes = 0
    /\ dec = last.dec0

\* C7: IsZero is true for an Absent option; for a Present option it is the
\* result of the contained type's IsZero method when there is one, and
\* otherwise true exactly when the contained value equals T's default.
C7_IsZero ==
  last.op \in {"IsZero", "IsZero_json"} =>
    last.bool = (IF ~last.pre.valid THEN TRUE
                 ELSE IF HasIsZeroMethod(T) THEN IsZeroMethod(last.pre.value)
                 ELSE last.pre.value = Zero(T))

\* C7 for the IsZero of src/json.go alone.
C7_JsonGo ==
  last.op = "IsZero_json" =>
    last.bool = (IF ~last.pre.valid THEN TRUE
                 ELSE IF HasIsZeroMethod(T) THEN IsZeroMethod(last.pre.value)
                 ELSE last.pre.value = Zero(T))

\* C8: on a Present option Unwrap and Expect return the value without a
\* panic; on an Absent option Expect panics with the caller's message and
\* Unwrap with "called Unwrap on a None value".
C8_UnwrapExpect ==
  last.op \in {"Expect", "Unwrap", "Unwrap_old"} =>
    IF last.pre.valid
    THEN last.panic = NoPanic /\ last.val = last.pre.value
    ELSE last.panic = (IF last.op = "Expect" THEN last.msg
                       ELSE "called Unwrap on a None value")

\* C8 without the Unwrap of the second file of src/option.go.
C8_ExceptOld ==
  last.op \in {"Expect", "Unwrap"} =>
    IF last.pre.valid
    THEN last.panic = NoPanic /\ last.val = last.pre.value
    ELSE last.panic = (IF last.op = "Expect" THEN last.msg
                       ELSE "called Unwrap on a None value")

Combinators ==
  {"Filter", "Inspect", "Map", "And", "Or", "Xor", "AndThen", "OrElse"}

\* C9: Inspect calls fn once on a Present option and never on an Absent one,
\* and whatever fn does it returns an option equal to the receiver as it was
\* before the call; no combinator modifies the receiver the caller holds.
C9_InspectReturnsReceiver ==
  /\ last.op = "Inspect" =>
       /\ last.calls = (IF last.pre.valid THEN 1 ELSE 0)
       /\ last.ret = last.pre
  /\ (last.op \in Combinators /\ ~last.assigned) => o = last.pre

\* C9 without the equality of the result and the receiver.
C9_CallsAndFrame ==
  /\ last.op = "Inspect" => last.calls = (IF last.pre.valid THEN 1 ELSE 0)
  /\ (last.op = "Inspect" /\ ~last.cb.set) => last.ret = last.pre
  /\ (last.op \in Combinators /\ ~last.assigned) => o = last.pre

\* C10: a.And(b) is b when a is Present and Absent otherwise; a.Or(b) is a
\* when a is Present and b otherwise; a.Xor(b) is a when only a is Present, b
\* when only b is Present, and Absent when both or neither are.
C10_AndOrXor ==
  LET a == last.pre
      b == last.other
  IN /\ last.op = "And" => last.ret = (IF a.valid THEN b ELSE None(T))
     /\ last.op = "Or" => last.ret = (IF a.valid THEN a ELSE b)
     /\ last.op = "Xor" =>
          /\ (a.valid /\ ~b.valid) => last.ret = a
          /\ (~a.valid /\ b.valid) => last.ret = b
          /\ (a.valid = b.valid) => last.ret = None(T)

\* Xor of two Present options holding different values has returned Absent.
C10_Witness ==
  /\ last.op = "Xor"
  /\ last.pre.valid
  /\ last.other.valid
  /\ last.pre.value # last.other.value
  /\ last.ret = None(T)

====
